---- MODULE Spec2Model ----
(***************************************************************************)
(* Flow builder and flow simulator of the admin web application.           *)
(*                                                                         *)
(* FlowBuilder (FlowBuilder.tsx) owns the graph (nodes, edges), the flow   *)
(* properties and the undo history.  FlowSimulator (unnamed/part_005)      *)
(* owns the execution steps, the current step index and the playback       *)
(* state, and is driven by two kinds of timers: the auto-play timer of the *)
(* effect at lines 104-114 and the completion timer every executeNextStep  *)
(* call schedules at lines 138-159.                                        *)
(*                                                                         *)
(* Conventions: indices are 0-based as in the source, so step i of the     *)
(* source is executionSteps[i + 1] here.  playbackSpeed is kept in         *)
(* percent (50, 100, 200 for 0.5x, 1x, 2x).  Date.now() values are         *)
(* abstracted to the token Stamp; amounts are kept in hundredths.          *)
(***************************************************************************)
EXTENDS Integers, Sequences, FiniteSets, Bags, TLC

VARIABLES
    nodes,              \* FlowBuilder: useNodesState
    edges,              \* FlowBuilder: useEdgesState
    flowProperties,     \* FlowBuilder: name, version, status
    history,            \* FlowBuilder: undo history of {nodes, edges}
    historyIndex,       \* FlowBuilder: position in history (0-based)
    isDirty,            \* FlowBuilder: the Unsaved badge
    isSimulating,       \* FlowBuilder: passed to the simulator as isRunning
    selectedNode,       \* FlowBuilder: id of the clicked node, or Undef
    now,                \* the clock Date.now() reads
    executionSteps,     \* FlowSimulator: the step records
    currentStepIndex,   \* FlowSimulator: 0-based index of the next step
    simulationData,     \* FlowSimulator: the editable test payload
    isPlaying,          \* FlowSimulator: play loop on/off
    playbackSpeed,      \* FlowSimulator: in percent
    playTimer,          \* the pending auto-play timer (its closure), or NoTimer
    completions,        \* bag of pending completion timers (their closures)
    execCount,          \* history: times each step was set running since the last reset
    prevRun,            \* history: the step records of the run that Restart replaced
    trail               \* history: the last graph operation, the graph before it,
                        \* and the graph of the last save or publish

builderVars == <<nodes, edges, flowProperties, history, historyIndex, isDirty,
                 selectedNode, now, trail>>
simVars == <<executionSteps, currentStepIndex, simulationData, isPlaying,
             playbackSpeed, playTimer, completions, execCount, prevRun>>
vars == <<nodes, edges, flowProperties, history, historyIndex, isDirty,
          isSimulating, selectedNode, now, executionSteps, currentStepIndex,
          simulationData, isPlaying, playbackSpeed, playTimer, completions,
          execCount, prevRun, trail>>

-----------------------------------------------------------------------------
(* Bounds of the model *)

\* pending completion timers at one time
MaxInFlight == 2
\* distinct values Math.random() yields for a generated id
NumRandomIds == 1

\* nodes on the canvas
MaxNodes == 3
\* entries of the undo history
MaxHistory == 3
\* milliseconds the clock advances during an editing session
MaxClock == 2

\* Date.now() when the editing session begins
Epoch == 1000

(* Program constants *)

\* setTimeout(..., 2000 / playbackSpeed)
PlayDelayBase == 2000
\* Math.floor(Math.random() * 1000) + 500
CompletionDelayRange == 1000
CompletionDelayMin == 500

\* placeholder of the Max Retry Attempts input
MaxRetryAttempts == 3

Undef == "undefined"
Stamp == "Date.now()"
NoOutput == [tag |-> "undefined"]
NullOutput == [tag |-> "null"]
NoTimer == [armed |-> FALSE]
NoNode == [id |-> Undef, type |-> Undef, label |-> Undef]
\* values of the history variable prevRun before a run was recorded
NotRecording == << "not recording" >>
NoPrevRun == << >>

Speeds == {50, 100, 200}
Amounts == {15000, 24550}
RandomIds == 1..NumRandomIds

-----------------------------------------------------------------------------
(* The flow loaded into the simulator: Start -> Condition -[true]-> Payment *)
(* -[success]-> End; the Condition's false port and the Payment's failed    *)
(* port lead to a second End.                                               *)

FlowNodes ==
    << [id |-> "start-1",        type |-> "start",        label |-> "Start"],
       [id |-> "condition-1",    type |-> "condition",    label |-> "Condition"],
       [id |-> "payment-1",      type |-> "payment",      label |-> "Payment"],
       [id |-> "end-1",          type |-> "end",          label |-> "End"],
       [id |-> "end-2",          type |-> "end",          label |-> "End"] >>

FlowEdges ==
    { [id |-> "edge-1", source |-> "start-1", sourceHandle |-> Undef, target |-> "condition-1"],
      [id |-> "edge-2", source |-> "condition-1", sourceHandle |-> "true", target |-> "payment-1"],
      [id |-> "edge-3", source |-> "condition-1", sourceHandle |-> "false", target |-> "end-2"],
      [id |-> "edge-4", source |-> "payment-1", sourceHandle |-> "success", target |-> "end-1"],
      [id |-> "edge-5", source |-> "payment-1", sourceHandle |-> "failed", target |-> "end-2"] }

-----------------------------------------------------------------------------
(* Helpers *)

\* the trail of a builder just mounted on the graph
FreshTrail(ns, es) ==
    [op |-> "none",
     before |-> [nodes |-> ns, edges |-> es],
     saved |-> [nodes |-> ns, edges |-> es]]

\* the trail after the graph operation op was applied to the current graph
Trailed(op) ==
    [trail EXCEPT !.op = op, !.before = [nodes |-> nodes, edges |-> edges]]

\* nodes.find(n => n.id === id)
FindNode(ns, id) ==
    IF \E k \in 1..Len(ns) : ns[k].id = id
    THEN ns[CHOOSE k \in 1..Len(ns) :
                ns[k].id = id /\ \A j \in 1..(k - 1) : ns[j].id # id]
    ELSE NoNode

\* the steps the effect at lines 90-101 builds from the nodes
InitialSteps(ns) ==
    [k \in 1..Len(ns) |->
        [id |-> "step-" \o ToString(k - 1),
         nodeId |-> ns[k].id,
         nodeName |-> ns[k].label,
         status |-> "pending",
         startTime |-> Undef, endTime |-> Undef, duration |-> Undef,
         output |-> NoOutput, error |-> Undef,
         logs |-> << >>]]

\* a reset that forgets to clear the logs
ResetStepKeepingLogs(step) ==
    [step EXCEPT !.status = "pending", !.startTime = Undef, !.endTime = Undef,
                 !.duration = Undef, !.output = NoOutput, !.error = Undef]

\* the reset both startSimulation (lines 167-176) and stopSimulation
\* (lines 187-196) apply to every step
ResetStep(step) ==
    [step EXCEPT !.status = "pending", !.startTime = Undef, !.endTime = Undef,
                 !.duration = Undef, !.output = NoOutput, !.error = Undef,
                 !.logs = << >>]

ResetSteps(steps) == [k \in 1..Len(steps) |-> ResetStep(steps[k])]

\* step => ({...step, status: 'running', startTime, logs: [...]})
RunningStep(step) ==
    [step EXCEPT !.status = "running", !.startTime = Stamp,
                 !.logs = Append(step.logs, "Executing " \o step.nodeName \o "...")]

\* simulateNodeExecution(node, data); rnd and cond are its Math.random() draws
simulateNodeExecution(node, data, rnd, cond) ==
    IF node = NoNode
    THEN [output |-> NullOutput, error |-> "Node not found",
          logs |-> << "Error: Node not found" >>]
    ELSE CASE node.type = "start" ->
                [output |-> [tag |-> "start", flowId |-> "flow-123", startTime |-> Stamp],
                 error |-> Undef,
                 logs |-> << "Flow execution started",
                             "Processing order " \o data.orderId >>]
           [] node.type = "notification" ->
                [output |-> [tag |-> "notification", messageId |-> rnd, sent |-> TRUE],
                 error |-> Undef,
                 logs |-> << "Sending notification to " \o data.customerPhone,
                             "SMS gateway connection established",
                             "Message queued for delivery" >>]
           [] node.type = "payment" ->
                [output |-> [tag |-> "payment", transactionId |-> rnd,
                             amount |-> data.amount, status |-> "completed"],
                 error |-> Undef,
                 logs |-> << "Processing payment of " \o ToString(data.amount),
                             "UPI collect request initiated",
                             "Payment successful" >>]
           [] node.type = "condition" ->
                [output |-> [tag |-> "condition", condition |-> cond,
                             branch |-> IF cond THEN "true" ELSE "false"],
                 error |-> Undef,
                 logs |-> << "Evaluating condition: amount > 200",
                             "Condition result: " \o ToString(cond) >>]
           [] node.type = "action" ->
                [output |-> [tag |-> "action", statusCode |-> 200],
                 error |-> Undef,
                 logs |-> << "Executing HTTP request",
                             "Request sent to external API",
                             "Response received successfully" >>]
           [] node.type = "end" ->
                [output |-> [tag |-> "end", completed |-> TRUE, endTime |-> Stamp],
                 error |-> Undef,
                 logs |-> << "Flow execution completed",
                             "Cleanup tasks performed" >>]
           [] OTHER ->
                [output |-> [tag |-> "default", nodeType |-> node.type, processed |-> TRUE],
                 error |-> Undef,
                 logs |-> << "Executing " \o node.type \o " node",
                             "Processing completed" >>]

\* the record the completion timer writes (lines 145-153)
SealedStep(step, result, success) ==
    [step EXCEPT !.status = IF success THEN "completed" ELSE "failed",
                 !.endTime = Stamp,
                 !.duration = Stamp,
                 !.output = IF success THEN result.output ELSE NoOutput,
                 !.error = IF success THEN Undef ELSE result.error,
                 !.logs = step.logs \o result.logs \o
                          << IF success THEN "Completed successfully"
                             ELSE "Execution failed" >>]

\* prev.map((step, index) => index === i ? f(step) : step), with the new step given
MapStep(steps, i, newStep) ==
    [k \in 1..Len(steps) |-> IF k - 1 = i THEN newStep ELSE steps[k]]

\* 2000 / playbackSpeed, in milliseconds
PlayDelay(speed) == (PlayDelayBase * 100) \div speed

\* an effect whose dependency list leaves out currentStepIndex
AutoPlayEffectWithoutIndex(playing, index, speed, steps, data) ==
    IF <<playing, speed, Len(steps)>> =
       <<isPlaying, playbackSpeed, Len(executionSteps)>>
    THEN playTimer
    ELSE IF ~playing \/ index >= Len(steps)
         THEN NoTimer
         ELSE [armed |-> TRUE, currentStepIndex |-> index,
               delay |-> PlayDelay(speed), simulationData |-> data]

\* The auto-play effect (lines 104-114) after a render with the given values of
\* its dependencies: it leaves the timer alone when no dependency changed,
\* otherwise clears it and, when playing with steps left, arms a new one whose
\* callback closes over that render's executeNextStep.
AutoPlayEffect(playing, index, speed, steps, data) ==
    IF <<playing, index, speed, Len(steps)>> =
       <<isPlaying, currentStepIndex, playbackSpeed, Len(executionSteps)>>
    THEN playTimer
    ELSE IF ~playing \/ index >= Len(steps)
         THEN NoTimer
         ELSE [armed |-> TRUE, currentStepIndex |-> index,
               delay |-> PlayDelay(speed), simulationData |-> data]

ZeroCount(steps) == [i \in 0..(Len(steps) - 1) |-> 0]

-----------------------------------------------------------------------------
(* FlowSimulator *)

SimState ==
    /\ nodes = FlowNodes
    /\ edges = FlowEdges
    /\ flowProperties = [name |-> "New Flow", version |-> "1.0.0", status |-> "draft"]
    /\ history = << [nodes |-> FlowNodes, edges |-> FlowEdges] >>
    /\ historyIndex = 0
    /\ isDirty = FALSE
    /\ isSimulating = FALSE
    /\ selectedNode = Undef
    /\ now = 0
    /\ executionSteps = InitialSteps(FlowNodes)
    /\ currentStepIndex = 0
    /\ simulationData = [orderId |-> "ORD-1", customerPhone |-> "+91 98765 43210",
                         amount |-> 24550]
    /\ isPlaying = FALSE
    /\ playbackSpeed = 100
    /\ playTimer = NoTimer
    /\ completions = EmptyBag
    /\ execCount = ZeroCount(InitialSteps(FlowNodes))
    /\ trail = FreshTrail(FlowNodes, FlowEdges)

\* the simulator as mounted by opening the Simulate tab on the loaded flow
SimInit == SimState /\ prevRun = NotRecording

\* startSimulation (lines 162-178); the button shows only while not playing
startSimulation ==
    /\ ~isPlaying
    /\ LET restart == currentStepIndex >= Len(executionSteps)
           index == IF restart THEN 0 ELSE currentStepIndex
           steps == IF restart THEN ResetSteps(executionSteps) ELSE executionSteps
       IN /\ isPlaying' = TRUE
          /\ currentStepIndex' = index
          /\ executionSteps' = steps
          /\ playTimer' = AutoPlayEffect(TRUE, index, playbackSpeed, steps, simulationData)
          /\ execCount' = IF restart THEN ZeroCount(steps) ELSE execCount
          /\ prevRun' = IF restart /\ prevRun # NotRecording
                        THEN executionSteps ELSE prevRun
    /\ UNCHANGED <<builderVars, isSimulating, simulationData, playbackSpeed, completions>>

\* pauseSimulation (lines 180-182); the button shows only while playing
pauseSimulation ==
    /\ isPlaying
    /\ isPlaying' = FALSE
    /\ playTimer' = AutoPlayEffect(FALSE, currentStepIndex, playbackSpeed,
                                   executionSteps, simulationData)
    /\ UNCHANGED <<builderVars, isSimulating, executionSteps, currentStepIndex,
                   simulationData, playbackSpeed, completions, execCount, prevRun>>

\* stopSimulation (lines 184-198), then onStop of FlowBuilder (line 553)
stopSimulation ==
    /\ isPlaying' = FALSE
    /\ currentStepIndex' = 0
    /\ executionSteps' = ResetSteps(executionSteps)
    /\ playTimer' = AutoPlayEffect(FALSE, 0, playbackSpeed,
                                   ResetSteps(executionSteps), simulationData)
    /\ isSimulating' = FALSE
    /\ execCount' = ZeroCount(executionSteps)
    /\ UNCHANGED <<builderVars, simulationData, playbackSpeed, completions, prevRun>>

\* onClick={() => setPlaybackSpeed(s)} (lines 245-268)
setPlaybackSpeed(s) ==
    /\ s # playbackSpeed
    /\ playbackSpeed' = s
    /\ playTimer' = AutoPlayEffect(isPlaying, currentStepIndex, s,
                                   executionSteps, simulationData)
    /\ UNCHANGED <<builderVars, isSimulating, executionSteps, currentStepIndex,
                   simulationData, isPlaying, completions, execCount, prevRun>>

\* the Amount input (lines 324-329); the effect does not depend on the data
setAmount(a) ==
    /\ a # simulationData.amount
    /\ simulationData' = [simulationData EXCEPT !.amount = a]
    /\ UNCHANGED <<builderVars, isSimulating, executionSteps, currentStepIndex,
                   isPlaying, playbackSpeed, playTimer, completions, execCount, prevRun>>

\* A play timer armed while completion timers are pending was armed after they
\* were scheduled; it can fire before one of them only when its delay is below
\* the longest completion delay.
TimerMayFire ==
    \/ completions = EmptyBag
    \/ playTimer.delay < CompletionDelayMin + CompletionDelayRange - 1

\* executeNextStep (lines 116-160), called by the auto-play timer with the
\* closure of the render that armed it
executeNextStep ==
    /\ playTimer.armed
    /\ TimerMayFire
    /\ BagCardinality(completions) < MaxInFlight
    /\ LET index == playTimer.currentStepIndex
       IN IF index >= Len(executionSteps)
          THEN /\ isPlaying' = FALSE
               /\ playTimer' = NoTimer
               /\ UNCHANGED <<executionSteps, completions, execCount>>
          ELSE LET currentStep == executionSteps[index + 1]
                   node == FindNode(nodes, currentStep.nodeId)
               IN /\ executionSteps' = MapStep(executionSteps, index,
                                               RunningStep(executionSteps[index + 1]))
                  /\ completions' = completions (+)
                        SetToBag({[currentStepIndex |-> index, node |-> node,
                                   simulationData |-> playTimer.simulationData]})
                  /\ execCount' = [execCount EXCEPT ![index] = @ + 1]
                  /\ playTimer' = NoTimer
                  /\ UNCHANGED isPlaying
    /\ UNCHANGED <<builderVars, isSimulating, currentStepIndex, simulationData,
                   playbackSpeed, prevRun>>

\* a completion callback that also writes the outcome into the flow's node
completeStepMarkingNode(c, success, rnd, cond) ==
    /\ BagIn(c, completions)
    /\ LET index == c.currentStepIndex
           result == simulateNodeExecution(c.node, c.simulationData, rnd, cond)
           steps == IF index < Len(executionSteps)
                    THEN MapStep(executionSteps, index,
                                 SealedStep(executionSteps[index + 1], result, success))
                    ELSE executionSteps
       IN /\ executionSteps' = steps
          /\ currentStepIndex' = currentStepIndex + 1
          /\ playTimer' = AutoPlayEffect(isPlaying, currentStepIndex + 1, playbackSpeed,
                                         steps, simulationData)
          /\ nodes' = [k \in 1..Len(nodes) |->
                          IF k - 1 = index
                          THEN [nodes[k] EXCEPT !.label =
                                   IF success THEN "completed" ELSE "failed"]
                          ELSE nodes[k]]
    /\ completions' = completions (-) SetToBag({c})
    /\ UNCHANGED <<edges, flowProperties, history, historyIndex, isDirty,
                   selectedNode, now, trail, isSimulating, simulationData, isPlaying,
                   playbackSpeed, execCount, prevRun>>

\* the completion timer's callback (lines 138-159)
completeStep(c, success, rnd, cond) ==
    /\ BagIn(c, completions)
    /\ LET index == c.currentStepIndex
           result == simulateNodeExecution(c.node, c.simulationData, rnd, cond)
           steps == IF index < Len(executionSteps)
                    THEN MapStep(executionSteps, index,
                                 SealedStep(executionSteps[index + 1], result, success))
                    ELSE executionSteps
       IN /\ executionSteps' = steps
          /\ currentStepIndex' = currentStepIndex + 1
          /\ playTimer' = AutoPlayEffect(isPlaying, currentStepIndex + 1, playbackSpeed,
                                         steps, simulationData)
    /\ completions' = completions (-) SetToBag({c})
    /\ UNCHANGED <<builderVars, isSimulating, simulationData, isPlaying,
                   playbackSpeed, execCount, prevRun>>

\* the Math.random() draws simulateNodeExecution makes for a node
RandomDraws(node) ==
    IF node.type \in {"notification", "payment"} THEN RandomIds ELSE {1}

ConditionDraws(node) ==
    IF node.type = "condition" THEN BOOLEAN ELSE {FALSE}

SimNext ==
    \/ startSimulation
    \/ pauseSimulation
    \/ stopSimulation
    \/ \E s \in Speeds : setPlaybackSpeed(s)
    \/ executeNextStep
    \/ \E c \in BagToSet(completions), success \in BOOLEAN :
          \E rnd \in RandomDraws(c.node), cond \in ConditionDraws(c.node) :
             completeStep(c, success, rnd, cond)

Spec == SimInit /\ [][SimNext]_vars

\* play, pause, speed changes and the two timers, without Stop
PlaybackNext ==
    \/ startSimulation
    \/ pauseSimulation
    \/ \E s \in Speeds : setPlaybackSpeed(s)
    \/ executeNextStep
    \/ \E c \in BagToSet(completions), success \in BOOLEAN :
          \E rnd \in RandomDraws(c.node), cond \in ConditionDraws(c.node) :
             completeStep(c, success, rnd, cond)

SpecPlayback == SimInit /\ [][PlaybackNext]_vars

\* play, pause, Stop, edits of the test amount and the two timers, at the
\* initial speed
StopNext ==
    \/ startSimulation
    \/ pauseSimulation
    \/ stopSimulation
    \/ \E a \in Amounts : setAmount(a)
    \/ executeNextStep
    \/ \E c \in BagToSet(completions), success \in BOOLEAN :
          \E rnd \in RandomDraws(c.node), cond \in ConditionDraws(c.node) :
             completeStep(c, success, rnd, cond)

SpecStop == SimInit /\ [][StopNext]_vars

\* play to the end, pause, Restart, play again: the previous run is recorded
ReplayInit == SimState /\ prevRun = NoPrevRun

ReplayNext ==
    \/ startSimulation
    \/ pauseSimulation
    \/ executeNextStep
    \/ \E c \in BagToSet(completions), success \in BOOLEAN :
          \E rnd \in RandomDraws(c.node), cond \in ConditionDraws(c.node) :
             completeStep(c, success, rnd, cond)

SpecReplay == ReplayInit /\ [][ReplayNext]_vars

\* a pending completion timer fires
completionTimerFires ==
    \E c \in BagToSet(completions), success \in BOOLEAN :
       \E rnd \in RandomDraws(c.node), cond \in ConditionDraws(c.node) :
          completeStep(c, success, rnd, cond)

\* play, Stop and the two timers at the initial speed; the browser runs every
\* timer that stays pending (setTimeout, lines 111 and 138)
LiveNext ==
    \/ startSimulation
    \/ stopSimulation
    \/ executeNextStep
    \/ completionTimerFires

SpecLive ==
    /\ SimInit
    /\ [][LiveNext]_vars
    /\ WF_vars(executeNextStep)
    /\ WF_vars(completionTimerFires)

\* The flow of the two scenarios: Start -> Condition(amount > 200) -[true]->
\* Payment -[success]-> Notification -> End; the Condition's false port and
\* the Payment's failed port lead to a second End.
ScenarioNodes ==
    << [id |-> "start-1",        type |-> "start",        label |-> "Start"],
       [id |-> "condition-1",    type |-> "condition",    label |-> "Condition"],
       [id |-> "payment-1",      type |-> "payment",      label |-> "Payment"],
       [id |-> "notification-1", type |-> "notification", label |-> "Notification"],
       [id |-> "end-1",          type |-> "end",          label |-> "End"],
       [id |-> "end-2",          type |-> "end",          label |-> "End"] >>

ScenarioEdges ==
    { [id |-> "edge-1", source |-> "start-1", sourceHandle |-> Undef, target |-> "condition-1"],
      [id |-> "edge-2", source |-> "condition-1", sourceHandle |-> "true", target |-> "payment-1"],
      [id |-> "edge-3", source |-> "condition-1", sourceHandle |-> "false", target |-> "end-2"],
      [id |-> "edge-4", source |-> "payment-1", sourceHandle |-> "success", target |-> "notification-1"],
      [id |-> "edge-5", source |-> "payment-1", sourceHandle |-> "failed", target |-> "end-2"],
      [id |-> "edge-6", source |-> "notification-1", sourceHandle |-> Undef, target |-> "end-1"] }

\* the simulator mounted on the scenario flow, the Amount input set to one of
\* the scenarios' amounts
ScenarioInit ==
    /\ nodes = ScenarioNodes
    /\ edges = ScenarioEdges
    /\ flowProperties = [name |-> "New Flow", version |-> "1.0.0", status |-> "draft"]
    /\ history = << [nodes |-> ScenarioNodes, edges |-> ScenarioEdges] >>
    /\ historyIndex = 0
    /\ isDirty = FALSE
    /\ isSimulating = FALSE
    /\ selectedNode = Undef
    /\ now = 0
    /\ executionSteps = InitialSteps(ScenarioNodes)
    /\ currentStepIndex = 0
    /\ \E a \in Amounts :
          simulationData = [orderId |-> "ORD-1", customerPhone |-> "+91 98765 43210",
                            amount |-> a]
    /\ isPlaying = FALSE
    /\ playbackSpeed = 100
    /\ playTimer = NoTimer
    /\ completions = EmptyBag
    /\ execCount = ZeroCount(InitialSteps(ScenarioNodes))
    /\ trail = FreshTrail(ScenarioNodes, ScenarioEdges)
    /\ prevRun = NotRecording

\* one uninterrupted run: Play, then the two timers
ScenarioNext ==
    \/ startSimulation
    \/ executeNextStep
    \/ completionTimerFires

SpecScenario == ScenarioInit /\ [][ScenarioNext]_vars

-----------------------------------------------------------------------------
(* FlowBuilder *)

\* node types the editing session adds from the palette (NodePalette.tsx
\* lines 48-66 offer these among others)
PaletteTypes == {"start", "end", "condition"}

\* the label getDefaultNodeData gives a node of the type
DefaultLabel(nodeType) ==
    CASE nodeType = "start" -> "Start"
      [] nodeType = "end" -> "End"
      [] nodeType = "action" -> "Action"
      [] nodeType = "condition" -> "Condition"
      [] nodeType = "data" -> "Data"
      [] nodeType = "trigger" -> "Trigger"
      [] nodeType = "notification" -> "Notification"
      [] nodeType = "payment" -> "Payment"
      [] OTHER -> "Unknown"

initialNodes == << [id |-> "start-1", type |-> "start", label |-> "Start"] >>

\* the source handles a node of the type renders (Undef: the one unnamed handle)
SourceHandles(nodeType) ==
    CASE nodeType = "condition" -> {"true", "false"}
      [] nodeType = "payment" -> {"success", "failed"}
      [] nodeType = "end" -> {}
      [] OTHER -> {Undef}

\* whether a node of the type renders a target handle
HasTargetHandle(nodeType) == nodeType \notin {"start", "trigger"}

\* the simulator is not mounted while the Design tab is shown
SimulatorUnmounted ==
    /\ executionSteps = << >>
    /\ currentStepIndex = 0
    /\ simulationData = [orderId |-> "ORD-1", customerPhone |-> "+91 98765 43210",
                         amount |-> 24550]
    /\ isPlaying = FALSE
    /\ playbackSpeed = 100
    /\ playTimer = NoTimer
    /\ completions = EmptyBag
    /\ execCount = << >>
    /\ prevRun = NotRecording

\* FlowBuilder mounted without a flow prop (lines 114-138)
BuilderInit ==
    /\ nodes = initialNodes
    /\ edges = {}
    /\ flowProperties = [name |-> "New Flow", version |-> "1.0.0", status |-> "draft"]
    /\ history = << [nodes |-> initialNodes, edges |-> {}] >>
    /\ historyIndex = 0
    /\ isDirty = FALSE
    /\ isSimulating = FALSE
    /\ selectedNode = Undef
    /\ now = 0
    /\ trail = FreshTrail(nodes, edges)
    /\ SimulatorUnmounted

\* a saveToHistory that pushes onto the whole history, keeping the redo entries
saveToHistoryKeepingRedo ==
    /\ history' = Append(history, [nodes |-> nodes, edges |-> edges])
    /\ historyIndex' = Len(history)
    /\ isDirty' = TRUE
    /\ trail' = Trailed("edit")

\* saveToHistory (lines 140-146): it pushes the nodes and edges of the render
\* its caller ran in, that is, the graph before the caller's own update
saveToHistory ==
    /\ history' = Append(SubSeq(history, 1, historyIndex + 1),
                         [nodes |-> nodes, edges |-> edges])
    /\ historyIndex' = historyIndex + 1
    /\ isDirty' = TRUE
    /\ trail' = Trailed("edit")

\* the clock passes a millisecond
Tick ==
    /\ now < MaxClock
    /\ now' = now + 1
    /\ UNCHANGED <<nodes, edges, flowProperties, history, historyIndex, isDirty,
                   isSimulating, selectedNode, trail, simVars>>

\* addNode (lines 189-202), called by the palette
addNode(nodeType) ==
    /\ Len(nodes) < MaxNodes
    /\ historyIndex + 1 < MaxHistory
    /\ nodes' = Append(nodes, [id |-> nodeType \o "-" \o ToString(Epoch + now),
                               type |-> nodeType,
                               label |-> DefaultLabel(nodeType)])
    /\ saveToHistory
    /\ UNCHANGED <<edges, flowProperties, isSimulating, selectedNode, now, simVars>>

\* onNodeClick (lines 181-183)
onNodeClick(k) ==
    /\ selectedNode # nodes[k].id
    /\ selectedNode' = nodes[k].id
    /\ UNCHANGED <<nodes, edges, flowProperties, history, historyIndex, isDirty,
                   isSimulating, now, trail, simVars>>

\* deleteNode (lines 216-224), called for the selected node by the Delete
\* button of the properties panel or the Delete key
deleteNode ==
    /\ selectedNode # Undef
    /\ historyIndex + 1 < MaxHistory
    /\ nodes' = SelectSeq(nodes, LAMBDA n : n.id # selectedNode)
    /\ edges' = {e \in edges : e.source # selectedNode /\ e.target # selectedNode}
    /\ selectedNode' = Undef
    /\ saveToHistory
    /\ UNCHANGED <<flowProperties, isSimulating, now, simVars>>

\* addEdge of reactflow as onConnect uses it: an edge whose connection already
\* exists is not added
addEdge(newEdge, eds) ==
    IF \E e \in eds : /\ e.source = newEdge.source
                      /\ e.target = newEdge.target
                      /\ e.sourceHandle = newEdge.sourceHandle
    THEN eds
    ELSE eds \cup {newEdge}

\* onConnect (lines 166-179): the user drags from a source handle of node k
\* to the target handle of node m
onConnect(k, handle, m) ==
    /\ handle \in SourceHandles(nodes[k].type)
    /\ HasTargetHandle(nodes[m].type)
    /\ historyIndex + 1 < MaxHistory
    /\ edges' = addEdge([id |-> "edge-" \o ToString(Epoch + now), source |-> nodes[k].id,
                         sourceHandle |-> handle, target |-> nodes[m].id], edges)
    /\ saveToHistory
    /\ UNCHANGED <<nodes, flowProperties, isSimulating, selectedNode, now, simVars>>

\* undo (lines 148-155)
undo ==
    /\ historyIndex > 0
    /\ nodes' = history[historyIndex].nodes
    /\ edges' = history[historyIndex].edges
    /\ historyIndex' = historyIndex - 1
    /\ trail' = Trailed("undo")
    /\ UNCHANGED <<flowProperties, history, isDirty, isSimulating, selectedNode,
                   now, simVars>>

\* redo (lines 157-164)
redo ==
    /\ historyIndex < Len(history) - 1
    /\ nodes' = history[historyIndex + 2].nodes
    /\ edges' = history[historyIndex + 2].edges
    /\ historyIndex' = historyIndex + 1
    /\ trail' = Trailed("redo")
    /\ UNCHANGED <<flowProperties, history, isDirty, isSimulating, selectedNode,
                   now, simVars>>

\* handleSave (lines 226-250)
handleSave ==
    /\ isDirty
    /\ isDirty' = FALSE
    /\ trail' = [trail EXCEPT !.saved = [nodes |-> nodes, edges |-> edges]]
    /\ UNCHANGED <<nodes, edges, flowProperties, history, historyIndex,
                   isSimulating, selectedNode, now, simVars>>

\* handlePublish (lines 252-277)
handlePublish ==
    /\ flowProperties' = [flowProperties EXCEPT !.status = "active"]
    /\ isDirty' = FALSE
    /\ trail' = [trail EXCEPT !.saved = [nodes |-> nodes, edges |-> edges]]
    /\ UNCHANGED <<nodes, edges, history, historyIndex, isSimulating,
                   selectedNode, now, simVars>>

\* the status Select of FlowProperties (lines 201-206) through updateProperty
\* (lines 69-72) and onChange={setFlowProperties}
updateStatus(value) ==
    /\ value # flowProperties.status
    /\ flowProperties' = [flowProperties EXCEPT !.status = value]
    /\ UNCHANGED <<nodes, edges, history, historyIndex, isDirty, isSimulating,
                   selectedNode, now, trail, simVars>>

BuilderNext ==
    \/ Tick
    \/ \E t \in PaletteTypes : addNode(t)
    \/ \E k \in 1..Len(nodes) : onNodeClick(k)
    \/ deleteNode
    \/ \E k \in 1..Len(nodes), m \in 1..Len(nodes) :
          \E h \in SourceHandles(nodes[k].type) : onConnect(k, h, m)
    \/ undo
    \/ redo
    \/ handleSave
    \/ handlePublish
    \/ \E v \in {"draft", "active", "inactive"} : updateStatus(v)

SpecBuilder == BuilderInit /\ [][BuilderNext]_vars

\* FlowBuilder mounted with a flow prop: Start -> Condition, both ports of
\* the Condition -> End
LoadedNodes ==
    << [id |-> "start-1",      type |-> "start",     label |-> "Start"],
       [id |-> "condition-10", type |-> "condition", label |-> "Condition"],
       [id |-> "end-11",       type |-> "end",       label |-> "End"] >>

LoadedEdges ==
    { [id |-> "edge-12", source |-> "start-1", sourceHandle |-> Undef, target |-> "condition-10"],
      [id |-> "edge-13", source |-> "condition-10", sourceHandle |-> "true", target |-> "end-11"],
      [id |-> "edge-14", source |-> "condition-10", sourceHandle |-> "false", target |-> "end-11"] }

LoadedInit ==
    /\ nodes = LoadedNodes
    /\ edges = LoadedEdges
    /\ flowProperties = [name |-> "New Flow", version |-> "1.0.0", status |-> "draft"]
    /\ history = << [nodes |-> LoadedNodes, edges |-> LoadedEdges] >>
    /\ historyIndex = 0
    /\ isDirty = FALSE
    /\ isSimulating = FALSE
    /\ selectedNode = Undef
    /\ now = 0
    /\ trail = FreshTrail(nodes, edges)
    /\ SimulatorUnmounted

\* a session on the loaded flow: edges are drawn, nodes selected and deleted,
\* edits undone and redone, and the flow published
LoadedNext ==
    \/ Tick
    \/ \E k \in 1..Len(nodes) : onNodeClick(k)
    \/ deleteNode
    \/ \E k \in 1..Len(nodes), m \in 1..Len(nodes) :
          \E h \in SourceHandles(nodes[k].type) : onConnect(k, h, m)
    \/ undo
    \/ redo
    \/ handlePublish

SpecLoaded == LoadedInit /\ [][LoadedNext]_vars

\* texts typed into the Flow Name input; the field can be cleared
Names == {"New Flow", "Checkout", ""}

\* the Flow Name input of FlowProperties (lines 139-140) through updateProperty
updateName(value) ==
    /\ value # flowProperties.name
    /\ flowProperties' = [flowProperties EXCEPT !.name = value]
    /\ UNCHANGED <<nodes, edges, history, historyIndex, isDirty, isSimulating,
                   selectedNode, now, trail, simVars>>

\* id of the flow prop the builder was mounted with
LoadedFlowId == "flow-1"

\* the FlowData document exportFlow (lines 306-337) serialises; every value in
\* it is a string, an array or null (the default handle), which JSON.stringify
\* and JSON.parse preserve
exportFlow ==
    [id |-> LoadedFlowId,
     name |-> flowProperties.name,
     version |-> flowProperties.version,
     status |-> flowProperties.status,
     nodes |-> nodes,
     edges |-> edges,
     metadata |-> [createdAt |-> Stamp, updatedAt |-> Stamp,
                   createdBy |-> "current-user"]]

\* value || fallback for a string: the empty string is falsy
OrDefault(value, fallback) == IF value \in {"", Undef} THEN fallback ELSE value

\* the exported document is opened again: FlowBuilder is mounted with it as
\* its flow prop (lines 114-138)
reopenExported ==
    LET flow == exportFlow
    IN /\ nodes' = flow.nodes
       /\ edges' = flow.edges
       /\ flowProperties' = [name |-> OrDefault(flow.name, "New Flow"),
                             version |-> OrDefault(flow.version, "1.0.0"),
                             status |-> OrDefault(flow.status, "draft")]
       /\ history' = << [nodes |-> flow.nodes, edges |-> flow.edges] >>
       /\ historyIndex' = 0
       /\ isDirty' = FALSE
       /\ isSimulating' = FALSE
       /\ selectedNode' = Undef
       /\ trail' = FreshTrail(flow.nodes, flow.edges)
       /\ UNCHANGED <<now, simVars>>

\* a session on a loaded flow: nodes are selected and deleted, the name and
\* the status edited, and the exported document opened again
ExportNext ==
    \/ \E k \in 1..Len(nodes) : onNodeClick(k)
    \/ deleteNode
    \/ \E v \in Names : updateName(v)
    \/ \E v \in {"draft", "active", "inactive"} : updateStatus(v)
    \/ reopenExported

SpecExport == LoadedInit /\ [][ExportNext]_vars

\* edits made within one clock millisecond, the flow exported and opened
\* again between them
BurstNext ==
    \/ \E t \in PaletteTypes : addNode(t)
    \/ \E k \in 1..Len(nodes) : onNodeClick(k)
    \/ deleteNode
    \/ \E k \in 1..Len(nodes), m \in 1..Len(nodes) :
          \E h \in SourceHandles(nodes[k].type) : onConnect(k, h, m)
    \/ undo
    \/ redo
    \/ reopenExported

SpecBurst == BuilderInit /\ [][BurstNext]_vars

-----------------------------------------------------------------------------
(* The Graph Validator the design describes; FlowBuilder has none. *)

\* the ports a node of the type must emit, one outgoing edge on each (Undef:
\* the default port)
RequiredPorts(nodeType) ==
    CASE nodeType = "condition" -> {"true", "false"}
      [] nodeType = "payment" -> {"success", "failure"}
      [] nodeType = "end" -> {}
      [] OTHER -> {Undef}

\* the node's outgoing edges are exactly one per required port
PortsOk(n, es) ==
    LET out == {e \in es : e.source = n.id}
    IN /\ \A e \in out : e.sourceHandle \in RequiredPorts(n.type)
       /\ \A p \in RequiredPorts(n.type) :
             Cardinality({e \in out : e.sourceHandle = p}) = 1

\* the node ids reachable from the ids in S along zero or more edges
RECURSIVE ReachableFrom(_, _)
ReachableFrom(es, S) ==
    LET T == S \cup {e.target : e \in {d \in es : d.source \in S}}
    IN IF T = S THEN S ELSE ReachableFrom(es, T)

\* a cycle is reachable along outgoing edges from a Start node
CyclicFromStart(ns, es) ==
    LET starts == {ns[k].id : k \in {j \in 1..Len(ns) : ns[j].type = "start"}}
    IN \E n \in ReachableFrom(es, starts) :
          n \in ReachableFrom(es, {e.target : e \in {d \in es : d.source = n}})

\* fatal errors of a graph: (a) the number of Start and End nodes, (b) edges
\* that reference a node id not in the graph, (c) outgoing ports other than
\* those the node's type requires, (d) a cycle reachable from Start
validate(ns, es) ==
    LET ids == {ns[k].id : k \in 1..Len(ns)}
        starts == {k \in 1..Len(ns) : ns[k].type = "start"}
        ends == {k \in 1..Len(ns) : ns[k].type = "end"}
    IN (IF Cardinality(starts) = 0 THEN {"MissingStart"} ELSE {})
       \cup (IF Cardinality(starts) > 1 THEN {"MultipleStart"} ELSE {})
       \cup (IF Cardinality(ends) = 0 THEN {"MissingEnd"} ELSE {})
       \cup (IF \E e \in es : e.source \notin ids \/ e.target \notin ids
             THEN {"DanglingEdge"} ELSE {})
       \cup (IF \E k \in 1..Len(ns) : ~PortsOk(ns[k], es)
             THEN {"PortError"} ELSE {})
       \cup (IF CyclicFromStart(ns, es) THEN {"CyclicGraphError"} ELSE {})

\* the errors of the design's taxonomy that end a node without a retry
NonRetryableErrors ==
    {"RejectedError", "MissingVariableError", "InvalidConfigError",
     "UnknownNodeTypeError"}

-----------------------------------------------------------------------------
(* Vocabulary of the claims *)

StepIndices == 0..(Len(executionSteps) - 1)

Sealed(status) == status \in {"completed", "failed", "skipped"}

\* 0-based indices of the steps of the node with this id
StepsOfNode(id) == {i \in StepIndices : executionSteps[i + 1].nodeId = id}

StatusOfNode(id) == executionSteps[(CHOOSE i \in StepsOfNode(id) : TRUE) + 1].status

NodesOfType(t) == {nodes[k].id : k \in {j \in 1..Len(nodes) : nodes[j].type = t}}

TargetsOf(id, handle) ==
    {e.target : e \in {d \in edges : d.source = id /\ d.sourceHandle = handle}}

\* the walk has passed the last step and no timer is pending
RunEnded ==
    /\ currentStepIndex >= Len(executionSteps)
    /\ completions = EmptyBag

NoStepFailed == \A i \in StepIndices : executionSteps[i + 1].status # "failed"

\* the step was set running in the current run
Started(id) == \E i \in StepsOfNode(id) : execCount[i] > 0

\* the run status the simulator shows: the run is over once the index has
\* passed the last step (the Play button then reads Restart, line 228), it has
\* not started while the index is 0 and every step is pending
RunStatus ==
    IF currentStepIndex >= Len(executionSteps)
    THEN IF NoStepFailed THEN "Completed" ELSE "Failed"
    ELSE IF /\ currentStepIndex = 0
            /\ \A i \in StepIndices : executionSteps[i + 1].status = "pending"
         THEN "NotStarted"
         ELSE "Running"

\* a transition that begins a new run: Stop, or Play pressed as Restart
NewRun ==
    \/ stopSimulation
    \/ startSimulation /\ currentStepIndex >= Len(executionSteps)

-----------------------------------------------------------------------------
(* Claims *)

\* C1: in a run that executed a Condition node (and in which nothing failed),
\* when the run has ended exactly one of the targets of its true and false
\* edges is completed and the other is skipped.
C1_ConditionTakesOneBranch ==
    (RunEnded /\ NoStepFailed) =>
        \A c \in NodesOfType("condition") :
            StatusOfNode(c) = "completed" =>
                \A t \in TargetsOf(c, "true"), f \in TargetsOf(c, "false") :
                    \/ StatusOfNode(t) = "completed" /\ StatusOfNode(f) = "skipped"
                    \/ StatusOfNode(t) = "skipped" /\ StatusOfNode(f) = "completed"

\* C2: no run starts executing both the target of a Payment node's success
\* edge and the target of its failure edge.
C2_PaymentTakesOnePort ==
    \A p \in NodesOfType("payment") :
        \A s \in TargetsOf(p, "success"), f \in TargetsOf(p, "failed") :
            ~(Started(s) /\ Started(f))

\* C3: once a node without a failure-path edge (any non-Payment node) is
\* sealed failed, no StepRecord of another node becomes running or completed.
C3_FailedNodeHaltsRun ==
    [][ \A i \in StepIndices :
          (/\ executionSteps[i + 1].status = "failed"
           /\ FindNode(nodes, executionSteps[i + 1].nodeId).type # "payment")
          => \A j \in StepIndices \ {i} :
                executionSteps'[j + 1].status \in {"running", "completed"}
                => executionSteps'[j + 1].status = executionSteps[j + 1].status ]_vars

\* C4: a flow becomes active only when the validator reports no fatal error
\* for its current nodes and edges.
C4_ActiveOnlyWhenValid ==
    [][ (flowProperties.status # "active" /\ flowProperties'.status = "active")
        => validate(nodes', edges') = {} ]_vars

C6_PauseResumeKeepsRunState ==
    \A i \in StepIndices :
        /\ i < currentStepIndex =>
              execCount[i] = 1 /\ Sealed(executionSteps[i + 1].status)
        /\ i = currentStepIndex => execCount[i] <= 1
        /\ i > currentStepIndex => execCount[i] = 0

\* C7: a run replayed after Restart on the same flow and payload ends with the
\* same sequence of StepRecords as the run before it.
C7_ReplayIsDeterministic ==
    (RunEnded /\ prevRun # NoPrevRun /\ prevRun # NotRecording) =>
        executionSteps = prevRun

\* C8: within a run a sealed StepRecord never changes again.
C8_SealedRecordsImmutable ==
    [][ ~NewRun =>
          \A i \in StepIndices :
              Sealed(executionSteps[i + 1].status)
              => executionSteps'[i + 1] = executionSteps[i + 1] ]_vars

\* C9: within one run every node's StepRecord enters running at most once.
C9_NodeExecutesAtMostOnce ==
    \A i \in StepIndices : execCount[i] <= 1

\* C10: within a run the status never goes from Running back to NotStarted,
\* and once it is Completed, Failed or Cancelled neither the status nor any
\* StepRecord changes.
C10_RunStatusOnlyMovesForward ==
    [][ ~NewRun =>
          /\ RunStatus = "Running" => RunStatus' # "NotStarted"
          /\ RunStatus \in {"Completed", "Failed", "Cancelled"}
             => /\ RunStatus' = RunStatus
                /\ executionSteps' = executionSteps ]_vars

OutputOfNode(id) == executionSteps[(CHOOSE i \in StepsOfNode(id) : TRUE) + 1].output

\* C12: Scenario A: run with amount 245.50 and a successful payment, the run
\* ends with the Condition on its true branch, six StepRecords all completed
\* and the run status Completed.
C12_ScenarioA ==
    (/\ RunEnded
     /\ simulationData.amount = 24550
     /\ StatusOfNode("payment-1") = "completed")
    => /\ StatusOfNode("condition-1") = "completed"
       /\ OutputOfNode("condition-1").branch = "true"
       /\ Len(executionSteps) = 6
       /\ \A i \in StepIndices : executionSteps[i + 1].status = "completed"
       /\ RunStatus = "Completed"

\* C13: Scenario B: run with amount 150 (no step failing), the Condition
\* evaluates false, the Payment on its true branch is skipped and never
\* started, and the End on its false branch completes with resultType
\* cancelled.
C13_ScenarioB ==
    (/\ RunEnded
     /\ simulationData.amount = 15000
     /\ NoStepFailed)
    => /\ OutputOfNode("condition-1").branch = "false"
       /\ StatusOfNode("payment-1") = "skipped"
       /\ ~Started("payment-1")
       /\ StatusOfNode("end-2") = "completed"
       /\ "resultType" \in DOMAIN OutputOfNode("end-2")
       /\ OutputOfNode("end-2").resultType = "cancelled"

\* the flow's status becomes active in this step
Activated == flowProperties.status # "active" /\ flowProperties'.status = "active"

CountOfType(ns, t) == Cardinality({k \in 1..Len(ns) : ns[k].type = t})

\* C14: whatever sequence of edits produced it, a graph becomes active only
\* with exactly one Start node and at least one End node, the validator
\* reporting neither a missing or multiple Start nor a missing End.
C14_ActiveHasOneStartAndAnEnd ==
    [][ Activated =>
          /\ CountOfType(nodes', "start") = 1
          /\ CountOfType(nodes', "end") >= 1
          /\ validate(nodes', edges') \cap
                {"MissingStart", "MultipleStart", "MissingEnd"} = {} ]_vars

\* C15: a graph becomes active only when every node's outgoing edges are
\* exactly one per port its type requires (true and false for a Condition,
\* success and failure for a Payment, the default port otherwise, none for an
\* End), the validator reporting no port error.
C15_ActiveHasExactPorts ==
    [][ Activated =>
          /\ \A k \in 1..Len(nodes') : PortsOk(nodes'[k], edges')
          /\ "PortError" \notin validate(nodes', edges') ]_vars

\* C16: a graph with a cycle reachable from Start never becomes active, the
\* validator reporting CyclicGraphError exactly for such graphs.
C16_ActiveHasNoCycle ==
    [][ Activated =>
          /\ ~CyclicFromStart(nodes', edges')
          /\ "CyclicGraphError" \notin validate(nodes', edges') ]_vars

\* C17: no step of the simulator (play, pause, stop, speed change, either
\* timer) changes the flow's nodes, edges, properties or status.
C17_SimulationLeavesFlowUnchanged ==
    [][ /\ nodes' = nodes
        /\ edges' = edges
        /\ flowProperties' = flowProperties ]_vars

\* C17 witness: a run was driven past two steps at another speed, a step is
\* sealed and a completion timer is pending, and the flow is as loaded.
C17_Witness ==
    /\ currentStepIndex >= 2
    /\ playbackSpeed # 100
    /\ \E i \in StepIndices : Sealed(executionSteps[i + 1].status)
    /\ completions # EmptyBag
    /\ nodes = FlowNodes /\ edges = FlowEdges /\ flowProperties.status = "draft"

\* C18: with the retry bound configured, a StepRecord is never attempted more
\* than 1 + bound times, and one sealed failed either carries a non-retryable
\* error and was attempted once, or was attempted 1 + bound times.
C18_FailedOnlyAfterRetries ==
    \A i \in StepIndices :
        /\ execCount[i] <= 1 + MaxRetryAttempts
        /\ executionSteps[i + 1].status = "failed"
           => \/ /\ executionSteps[i + 1].error \in NonRetryableErrors
                 /\ execCount[i] = 1
              \/ execCount[i] = 1 + MaxRetryAttempts

\* C19: every StepRecord sealed failed carries an error, every StepRecord
\* sealed completed carries an output and no error, and a run that has ended
\* with a failed record has the status Failed.
C19_NoErrorSwallowed ==
    /\ \A i \in StepIndices :
          /\ executionSteps[i + 1].status = "failed"
             => executionSteps[i + 1].error \notin {Undef, ""}
          /\ executionSteps[i + 1].status = "completed"
             => /\ executionSteps[i + 1].output \notin {NoOutput, NullOutput}
                /\ executionSteps[i + 1].error = Undef
    /\ (RunEnded /\ ~NoStepFailed) => RunStatus = "Failed"

\* C20: opening an exported flow again yields the same nodes, edges and
\* properties, the same validation result and the same steps to execute.
C20_ExportRoundTrip ==
    [][ reopenExported =>
          /\ nodes' = nodes
          /\ edges' = edges
          /\ flowProperties' = flowProperties
          /\ validate(nodes', edges') = validate(nodes, edges)
          /\ InitialSteps(nodes') = InitialSteps(nodes) ]_vars

\* C21: a run's StepRecords are written only by that run: while a run is
\* being played, every record that is no longer pending was set running in
\* that run, as it would be had the run executed alone.
C21_RunsAreIndependent ==
    isPlaying =>
        \A i \in StepIndices :
            executionSteps[i + 1].status # "pending" => execCount[i] > 0

\* C22: at most one StepRecord is running at any moment, and a step is set
\* running only when no StepRecord is running.
C22_SequentialWalk ==
    /\ [](Cardinality({i \in StepIndices :
                         executionSteps[i + 1].status = "running"}) <= 1)
    /\ [][ execCount' # execCount /\ execCount' # ZeroCount(executionSteps)
           => \A i \in StepIndices : executionSteps[i + 1].status # "running" ]_vars

\* C23: no two nodes of the graph share an id and no two edges share an id.
C23_IdsAreUnique ==
    /\ \A j \in 1..Len(nodes), k \in 1..Len(nodes) :
          nodes[j].id = nodes[k].id => j = k
    /\ \A d \in edges, e \in edges : d.id = e.id => d = e

\* every edge's source and target are ids of nodes of the graph
EdgesReferenceNodes ==
    \A e \in edges :
        /\ \E k \in 1..Len(nodes) : nodes[k].id = e.source
        /\ \E k \in 1..Len(nodes) : nodes[k].id = e.target

\* C24: every edge references nodes of the graph, and deleteNode of a node of
\* the graph removes exactly one node, the selected one, and the edges
\* incident to it, leaving every other node and edge unchanged.
C24_EdgesReferenceExistingNodes ==
    /\ []EdgesReferenceNodes
    /\ [][ (deleteNode /\ \E k \in 1..Len(nodes) : nodes[k].id = selectedNode) =>
             /\ Len(nodes') = Len(nodes) - 1
             /\ \A k \in 1..Len(nodes') : nodes'[k].id # selectedNode
             /\ edges' = {e \in edges : e.source # selectedNode
                                         /\ e.target # selectedNode} ]_vars

\* a step that edits the graph through saveToHistory
EditStep ==
    \/ \E t \in PaletteTypes : addNode(t)
    \/ deleteNode
    \/ \E k \in 1..Len(nodes), m \in 1..Len(nodes) :
          \E h \in SourceHandles(nodes[k].type) : onConnect(k, h, m)

\* C25: an undo that follows an edit sets nodes and edges to what they were
\* immediately before that edit.
C25_UndoRestoresPreviousGraph ==
    [][ (undo /\ trail.op = "edit")
        => /\ nodes' = trail.before.nodes
           /\ edges' = trail.before.edges ]_vars

\* C26: a redo that follows an undo sets nodes and edges to what they were
\* before that undo.
C26_UndoRedoIsIdentity ==
    [][ (redo /\ trail.op = "undo")
        => /\ nodes' = trail.before.nodes
           /\ edges' = trail.before.edges ]_vars

\* C27: 0 <= historyIndex <= history.length - 1 always; an edit keeps the
\* entries up to the index, drops the redo entries after it, appends one entry
\* and leaves the index at the last entry; undo and redo leave the history
\* alone; no step moves the index below 0 or, except an edit, past the last
\* entry.
C27_HistoryIndexIsValid ==
    /\ [](0 <= historyIndex /\ historyIndex <= Len(history) - 1)
    /\ [][ EditStep =>
             /\ Len(history') = historyIndex + 2
             /\ historyIndex' = Len(history') - 1
             /\ SubSeq(history', 1, historyIndex + 1) =
                   SubSeq(history, 1, historyIndex + 1) ]_vars
    /\ [][ (undo \/ redo) => history' = history ]_vars
    /\ [][ /\ historyIndex = 0 => historyIndex' >= 0
           /\ (historyIndex = Len(history) - 1 /\ historyIndex' > historyIndex)
              => EditStep ]_vars

\* C27 witness: an edit was made after an undo: the third history entry holds
\* the initial graph again, which the second entry's edit had changed, and the
\* index is at that last entry.
C27_Witness ==
    /\ trail.op = "edit"
    /\ Len(history) = 3
    /\ historyIndex = 2
    /\ history[3] = history[1]

\* C28: 0 <= currentStepIndex <= executionSteps.length, the index advances
\* only past a step that was executed and sealed, and no step behind the
\* index is still pending.
C28_StepIndexInRange ==
    /\ [](/\ 0 <= currentStepIndex
          /\ currentStepIndex <= Len(executionSteps)
          /\ \A i \in StepIndices :
                i < currentStepIndex => executionSteps[i + 1].status # "pending")
    /\ [][ currentStepIndex' > currentStepIndex
           => /\ currentStepIndex' = currentStepIndex + 1
              /\ currentStepIndex < Len(executionSteps)
              /\ Sealed(executionSteps'[currentStepIndex + 1].status) ]_vars

\* the simulator is in its initial state: every step pending with nothing
\* recorded, the index 0, not playing
SimulationIsReset ==
    /\ ~isPlaying
    /\ currentStepIndex = 0
    /\ executionSteps = ResetSteps(executionSteps)

\* C29: once the simulation has been reset it stays reset until Play is
\* pressed: no other step, a completion timer scheduled earlier included,
\* changes a step or the index.
C29_StopStaysReset ==
    [][ (SimulationIsReset /\ ~startSimulation)
        => /\ executionSteps' = executionSteps
           /\ currentStepIndex' = currentStepIndex ]_vars

\* C30: while isDirty is false the nodes and edges equal those of the last
\* save or publish (of the mount, before the first), and every step that
\* changes the nodes or edges leaves isDirty true.
C30_UnsavedIndicatorIsAccurate ==
    /\ [](~isDirty => /\ nodes = trail.saved.nodes
                      /\ edges = trail.saved.edges)
    /\ [][ (nodes' # nodes \/ edges' # edges) => isDirty' ]_vars

====
